---- MODULE Spec2Model ----
(***************************************************************************)
(* Model of the KVObject envelope (src/src/kv_object.rs), its SM2 adapter  *)
(* (src/src/sm2.rs) and the TestPoint body (src/tests/test.rs).            *)
(*                                                                         *)
(* Byte strings are sequences over 0..255 with the widths of the code: a   *)
(* Rust slice bytes[a..b] is SubSeq(bytes, a + 1, b).  A Result is the     *)
(* record [ok, err, val]: val is <<v>> for Ok(v) and <<>> for an Err; an   *)
(* Option is <<>> (None) or <<v>> (Some(v)).                               *)
(*                                                                         *)
(* The elliptic-curve provider (asymmetric_crypto, dislog_hal_sm2) is not  *)
(* part of the repository.  It is modelled as an ideal signature scheme    *)
(* with fixed-width encodings: a signature verifies exactly when the       *)
(* signer's key could have produced it over that digest.  Whether the      *)
(* provider decodes an encoding that no key of the model produces is not   *)
(* decided by the repository's code; every decoder takes that answer as    *)
(* the parameter `accept`, which the actions choose nondeterministically.  *)
(***************************************************************************)
EXTENDS Integers, Sequences, FiniteSets, TLC

VARIABLES
    obj,       \* the envelope the caller holds (a KVObject<TestPoint>)
    buf,       \* Option: the byte buffer in flight, <<>> or <<bytes>>
    res,       \* the last operation and what it returned
    lastSign,  \* history: Option, the last successful fill_kvhead
    lastSet,   \* history: per field, the bytes last stored in it
    wire,      \* history: what happened to the buffer in flight
    kp_in,     \* the text handed to KeyPairSm2::deserialize
    kp_out     \* what that call did

vars == <<obj, buf, res, lastSign, lastSet, wire, kp_in, kp_out>>

-----------------------------------------------------------------------------
(* Bounds of the model *)

NumKeys == 2        \* key pairs that exist
MaxNonce == 1       \* distinct draws the randomness source can give
MaxTamperByte == 7  \* a changed byte takes a value in 0..MaxTamperByte
MaxExtra == 2       \* bytes a buffer can be longer than a well-formed one

-----------------------------------------------------------------------------
(* Results, options, byte strings *)

Ok(v) == [ok |-> TRUE, err |-> "", val |-> <<v>>]
Err(e) == [ok |-> FALSE, err |-> e, val |-> <<>>]
Panic == [ok |-> FALSE, err |-> "panic", val |-> <<>>]

Zeros(n) == [i \in 1..n |-> 0]
Resized(s, n) == [i \in 1..n |-> IF i <= Len(s) THEN s[i] ELSE 0]

-----------------------------------------------------------------------------
(* kv_object.rs: layout constants *)

MSGTYPE_LEN == 1
MSGTYPE_OFFSET == 0
MSGTYPE_END == MSGTYPE_OFFSET + MSGTYPE_LEN
CERT_LEN == 33
CERT_OFFSET == MSGTYPE_END
CERT_END == CERT_OFFSET + CERT_LEN
SIGTURE_LEN == 64
SIGTURE_OFFSET == CERT_END
SIGTURE_END == SIGTURE_OFFSET + SIGTURE_LEN
HEAD_TOTAL_LEN == MSGTYPE_LEN + CERT_LEN + SIGTURE_LEN

(* sm2.rs: widths of the key pair encoding *)
SCALAR_LEN == 32
KEYPAIR_LEN == 129

-----------------------------------------------------------------------------
(* kv_object.rs: MsgType *)

MsgType == {"IssueQuotaRequest", "QuotaControlField", "DigitalCurrency",
            "QuotaRecycleReceipt", "ConvertQoutaRequest", "Transaction"}

MsgType_from_bytes(bytes) ==
    IF Len(bytes) < MSGTYPE_LEN THEN Err("DeSerializeError")
    ELSE CASE bytes[1] = 1 -> Ok("IssueQuotaRequest")
           [] bytes[1] = 2 -> Ok("QuotaControlField")
           [] bytes[1] = 3 -> Ok("DigitalCurrency")
           [] bytes[1] = 4 -> Ok("QuotaRecycleReceipt")
           [] bytes[1] = 5 -> Ok("ConvertQoutaRequest")
           [] bytes[1] = 6 -> Ok("Transaction")
           [] OTHER -> Err("DeSerializeError")

\* MsgType_to_bytes with two variants sharing the byte 0x05.
MsgType_to_bytes_SharedByte(self) ==
    CASE self = "IssueQuotaRequest" -> <<1>>
      [] self = "QuotaControlField" -> <<2>>
      [] self = "DigitalCurrency" -> <<3>>
      [] self = "QuotaRecycleReceipt" -> <<4>>
      [] self = "ConvertQoutaRequest" -> <<5>>
      [] self = "Transaction" -> <<5>>

MsgType_to_bytes(self) ==
    CASE self = "IssueQuotaRequest" -> <<1>>
      [] self = "QuotaControlField" -> <<2>>
      [] self = "DigitalCurrency" -> <<3>>
      [] self = "QuotaRecycleReceipt" -> <<4>>
      [] self = "ConvertQoutaRequest" -> <<5>>
      [] self = "Transaction" -> <<6>>

-----------------------------------------------------------------------------
(* tests/test.rs: the body TestPoint {x: i32, y: i32} *)

\* i32::to_le_bytes: \div rounds down and % is non-negative, which gives the
\* two's complement bytes of a negative value.
I32ToLe(v) == [i \in 1..4 |-> (v \div (256 ^ (i - 1))) % 256]

\* i32::from_le_bytes
LeToI32(b) ==
    b[1] + 256 * b[2] + 65536 * b[3]
      + 16777216 * (IF b[4] >= 128 THEN b[4] - 256 ELSE b[4])

TestPoint_from_bytes(bytes) ==
    IF Len(bytes) # 8 THEN Err("DeSerializeError")
    ELSE Ok([x |-> LeToI32(SubSeq(bytes, 1, 4)),
             y |-> LeToI32(SubSeq(bytes, 5, 8))])

TestPoint_to_bytes(self) == I32ToLe(self.x) \o I32ToLe(self.y)

TestPoint_get_key(self, key) ==
    CASE key = "x" -> Ok(I32ToLe(self.x))
      [] key = "y" -> Ok(I32ToLe(self.y))
      [] OTHER -> Err("KeyIndexError")

\* TestPoint_set_key storing into y whatever the key "x" is given.
TestPoint_set_key_WrongField(self, key, value) ==
    IF Len(value) # 4 THEN [self |-> self, ret |-> Err("ValueValid")]
    ELSE LET a == LeToI32(value) IN
         CASE key = "x" -> [self |-> [self EXCEPT !.y = a], ret |-> Ok(<<>>)]
           [] key = "y" -> [self |-> [self EXCEPT !.y = a], ret |-> Ok(<<>>)]
           [] OTHER -> [self |-> self, ret |-> Err("KeyIndexError")]

\* TestPoint_set_key ignoring a key it does not know.
TestPoint_set_key_IgnoreUnknown(self, key, value) ==
    IF Len(value) # 4 THEN [self |-> self, ret |-> Err("ValueValid")]
    ELSE LET a == LeToI32(value) IN
         CASE key = "x" -> [self |-> [self EXCEPT !.x = a], ret |-> Ok(<<>>)]
           [] key = "y" -> [self |-> [self EXCEPT !.y = a], ret |-> Ok(<<>>)]
           [] OTHER -> [self |-> self, ret |-> Ok(<<>>)]

\* Returns the body after the call and the call's result.
TestPoint_set_key(self, key, value) ==
    IF Len(value) # 4 THEN [self |-> self, ret |-> Err("ValueValid")]
    ELSE LET a == LeToI32(value) IN
         CASE key = "x" -> [self |-> [self EXCEPT !.x = a], ret |-> Ok(<<>>)]
           [] key = "y" -> [self |-> [self EXCEPT !.y = a], ret |-> Ok(<<>>)]
           [] OTHER -> [self |-> self, ret |-> Err("KeyIndexError")]

-----------------------------------------------------------------------------
(* The provider behind sm2.rs: keys, points, scalars, digests *)

Keys == 1..NumKeys
Nonces == 1..MaxNonce
RngFail == 0                   \* a randomness source that fails
Rngs == Nonces \cup {RngFail}

\* Key material of key pair k; the public points of two keys differ in one byte.
SeedOf(k) == <<k, 5>> \o Zeros(30)
SecretOf(k) == <<k, 83>> \o Zeros(SCALAR_LEN - 2)
PointOf(k) == [inf |-> FALSE, odd |-> 0, x |-> <<k, 80>> \o Zeros(30)]
CodeOf(k) == <<k, 12>> \o Zeros(30)

Keypair_new(seed, pub_key, pri_key, code) ==
    [seed |-> seed, public |-> pub_key, secret |-> pri_key, code |-> code]

KeyPairOf(k) == Keypair_new(SeedOf(k), PointOf(k), SecretOf(k), CodeOf(k))

DefaultPoint == [inf |-> TRUE, odd |-> 0, x |-> Zeros(32)]

\* Compressed point: a prefix byte 2 or 3 and the 32 bytes of x.
Point_to_bytes(p) ==
    IF p.inf THEN Zeros(CERT_LEN) ELSE <<2 + p.odd>> \o p.x

Point_from_bytes(bytes, accept) ==
    IF Len(bytes) # CERT_LEN THEN Err("DeSerializeError")
    ELSE IF bytes[1] \in {2, 3}
    THEN LET x == SubSeq(bytes, 2, CERT_LEN) IN
         IF (\E k \in Keys : x = PointOf(k).x) \/ accept
         THEN Ok([inf |-> FALSE, odd |-> bytes[1] - 2, x |-> x])
         ELSE Err("DeSerializeError")
    ELSE IF bytes = Zeros(CERT_LEN) /\ accept THEN Ok(DefaultPoint)
    ELSE Err("DeSerializeError")

Scalar_from_bytes(bytes, accept) ==
    IF Len(bytes) # SCALAR_LEN THEN Err("DeSerializeError")
    ELSE IF (\E k \in Keys : bytes = SecretOf(k)) \/ accept THEN Ok(bytes)
    ELSE Err("DeSerializeError")

\* Ideal hash: an injective image of the message (bodies are 8 bytes).
Sm3(msg) == <<Len(msg)>> \o Resized(msg, 29)

\* signature::sm2::sm2_signature: fails when the randomness source fails,
\* otherwise the pair (r, s) determined by the key, the digest and the draw.
sm2_signature(e, secret, rng) ==
    IF rng = RngFail THEN Err("CryptoError")
    ELSE Ok([r |-> <<rng, secret[1]>> \o Zeros(SCALAR_LEN - 2),
             s |-> e \o <<rng, secret[1]>>])

\* signature::sm2::sm2_verify: true exactly for the signatures the owner of
\* the public key can produce over the digest.
sm2_verify(e, pub, sig) ==
    \E k \in Keys, n \in Nonces :
        pub = PointOf(k) /\ sm2_signature(e, SecretOf(k), n) = Ok(sig)

-----------------------------------------------------------------------------
(* sm2.rs: KeyPairSm2, CertificateSm2, SignatureSm2 *)

KeyPairSm2_sign(self, msg, rng) ==
    LET sig == sm2_signature(Sm3(msg), self.secret, rng) IN
    IF sig.ok THEN sig ELSE Err("CryptoError")

get_certificate(self) == self.public

CertificateSm2_verify(self, msg, signature) == sm2_verify(Sm3(msg), self, signature)

CertificateSm2_default == DefaultPoint

CertificateSm2_from_bytes(bytes, accept) ==
    LET a == Point_from_bytes(bytes, accept) IN
    IF a.ok THEN a ELSE Err("DeSerializeError")

CertificateSm2_to_bytes(self) == Point_to_bytes(self)

SignatureSm2_default == [r |-> Zeros(SCALAR_LEN), s |-> Zeros(SCALAR_LEN)]

SignatureSm2_to_bytes(self) == self.r \o self.s

\* A signature a key of the model produces always decodes.
SignatureSm2_from_bytes(bytes, accept) ==
    IF Len(bytes) # SIGTURE_LEN THEN Err("DeSerializeError")
    ELSE LET sig == [r |-> SubSeq(bytes, 1, SCALAR_LEN),
                     s |-> SubSeq(bytes, SCALAR_LEN + 1, SIGTURE_LEN)] IN
         IF accept \/ \E k \in Keys, n \in Nonces :
                sm2_signature(SubSeq(sig.s, 1, 30), SecretOf(k), n) = Ok(sig)
         THEN Ok(sig)
         ELSE Err("DeSerializeError")

KeyPairSm2_to_bytes(self) ==
    self.seed \o self.secret \o Point_to_bytes(self.public) \o self.seed

\* Indexing past the end of the slice aborts: bytes[i] in the seed loop,
\* &bytes[32..64], &bytes[64..97] and bytes[97 + i] in the code loop.
KeyPairSm2_from_bytes(bytes, acceptScalar, acceptPoint) ==
    IF Len(bytes) < 32 THEN Panic
    ELSE IF Len(bytes) < 64 THEN Panic
    ELSE LET pri_key == Scalar_from_bytes(SubSeq(bytes, 33, 64), acceptScalar) IN
         IF ~pri_key.ok THEN Err("DeSerializeError")
         ELSE IF Len(bytes) < 97 THEN Panic
         ELSE LET pub_key == Point_from_bytes(SubSeq(bytes, 65, 97), acceptPoint) IN
              IF ~pub_key.ok THEN Err("DeSerializeError")
              ELSE IF Len(bytes) < 129 THEN Panic
              ELSE Ok(Keypair_new(SubSeq(bytes, 1, 32), pub_key.val[1],
                                  pri_key.val[1], SubSeq(bytes, 98, 129)))

-----------------------------------------------------------------------------
(* hex: text as a sequence of character codes *)

HexUpper == <<48, 49, 50, 51, 52, 53, 54, 55, 56, 57, 65, 66, 67, 68, 69, 70>>

encode_hex_upper(bytes) ==
    [i \in 1..(2 * Len(bytes)) |->
        LET b == bytes[(i + 1) \div 2] IN
        IF i % 2 = 1 THEN HexUpper[(b \div 16) + 1] ELSE HexUpper[(b % 16) + 1]]

\* The value of a hex digit, -1 for any other character.
HexVal(c) ==
    IF c >= 48 /\ c <= 57 THEN c - 48
    ELSE IF c >= 65 /\ c <= 70 THEN c - 55
    ELSE IF c >= 97 /\ c <= 102 THEN c - 87
    ELSE -1

from_hex(str) ==
    IF Len(str) % 2 # 0 THEN Err("OddLength")
    ELSE IF \E i \in 1..Len(str) : HexVal(str[i]) = -1
    THEN Err("InvalidHexCharacter")
    ELSE Ok([i \in 1..(Len(str) \div 2) |->
                16 * HexVal(str[2 * i - 1]) + HexVal(str[2 * i])])

KeyPairSm2_serialize(self) == encode_hex_upper(KeyPairSm2_to_bytes(self))

KeyPairSm2_deserialize(d_str, acceptScalar, acceptPoint) ==
    LET d_byte == from_hex(d_str) IN
    IF ~d_byte.ok THEN Err("invalid hex string")
    ELSE LET kp == KeyPairSm2_from_bytes(d_byte.val[1], acceptScalar, acceptPoint) IN
         IF kp = Panic THEN Panic
         ELSE IF ~kp.ok THEN Err("invalid hex string")
         ELSE kp

-----------------------------------------------------------------------------
(* kv_object.rs: KVObject<TestPoint> *)

New(msg_type, t_obj) ==
    [msg_type |-> msg_type, cert |-> <<>>, signature |-> <<>>, t_obj |-> t_obj]

\* KVObject_from_bytes reporting a short buffer the way get_msgtpye does.
KVObject_from_bytes_ShortAsType(bytes, acceptCert, acceptSig) ==
    IF Len(bytes) < HEAD_TOTAL_LEN THEN Err("FindTypeError")
    ELSE
    LET msg_type == MsgType_from_bytes(SubSeq(bytes, MSGTYPE_OFFSET + 1, MSGTYPE_END))
        cert == CertificateSm2_from_bytes(SubSeq(bytes, CERT_OFFSET + 1, CERT_END),
                                          acceptCert)
        signature == SignatureSm2_from_bytes(
                         SubSeq(bytes, SIGTURE_OFFSET + 1, SIGTURE_END), acceptSig)
        t_obj == TestPoint_from_bytes(SubSeq(bytes, HEAD_TOTAL_LEN + 1, Len(bytes)))
    IN  IF ~msg_type.ok THEN Err("DeSerializeError")
        ELSE IF ~cert.ok THEN Err("DeSerializeError")
        ELSE IF ~signature.ok THEN Err("DeSerializeError")
        ELSE IF Len(bytes) = HEAD_TOTAL_LEN THEN Err("DeSerializeError")
        ELSE IF ~t_obj.ok THEN t_obj
        ELSE Ok([msg_type |-> msg_type.val[1],
                 cert |-> <<cert.val[1]>>,
                 signature |-> <<signature.val[1]>>,
                 t_obj |-> t_obj.val[1]])

KVObject_from_bytes(bytes, acceptCert, acceptSig) ==
    IF Len(bytes) < HEAD_TOTAL_LEN THEN Err("DeSerializeError")
    ELSE
    LET msg_type == MsgType_from_bytes(SubSeq(bytes, MSGTYPE_OFFSET + 1, MSGTYPE_END))
        cert == CertificateSm2_from_bytes(SubSeq(bytes, CERT_OFFSET + 1, CERT_END),
                                          acceptCert)
        signature == SignatureSm2_from_bytes(
                         SubSeq(bytes, SIGTURE_OFFSET + 1, SIGTURE_END), acceptSig)
        t_obj == TestPoint_from_bytes(SubSeq(bytes, HEAD_TOTAL_LEN + 1, Len(bytes)))
    IN  IF ~msg_type.ok THEN Err("DeSerializeError")
        ELSE IF ~cert.ok THEN Err("DeSerializeError")
        ELSE IF ~signature.ok THEN Err("DeSerializeError")
        ELSE IF Len(bytes) = HEAD_TOTAL_LEN THEN Err("DeSerializeError")
        ELSE IF ~t_obj.ok THEN t_obj
        ELSE Ok([msg_type |-> msg_type.val[1],
                 cert |-> <<cert.val[1]>>,
                 signature |-> <<signature.val[1]>>,
                 t_obj |-> t_obj.val[1]])

KVObject_to_bytes(self) ==
    MsgType_to_bytes(self.msg_type)
      \o (IF self.cert # <<>> THEN CertificateSm2_to_bytes(self.cert[1])
          ELSE CertificateSm2_to_bytes(CertificateSm2_default))
      \o (IF self.signature # <<>> THEN SignatureSm2_to_bytes(self.signature[1])
          ELSE SignatureSm2_to_bytes(SignatureSm2_default))
      \o TestPoint_to_bytes(self.t_obj)

\* fill_kvhead storing the signature and forgetting the certificate.
fill_kvhead_NoCert(self, keypair, rng) ==
    LET body_ == TestPoint_to_bytes(self.t_obj)
        signature == KeyPairSm2_sign(keypair, body_, rng)
    IN  IF ~signature.ok
        THEN [self |-> self, ret |-> Err("SerializeSignError")]
        ELSE [self |-> [self EXCEPT !.signature = <<signature.val[1]>>],
              ret |-> Ok(<<>>)]

\* fill_kvhead clearing the header when signing fails.
fill_kvhead_ClearOnError(self, keypair, rng) ==
    LET body_ == TestPoint_to_bytes(self.t_obj)
        signature == KeyPairSm2_sign(keypair, body_, rng)
    IN  IF ~signature.ok
        THEN [self |-> [self EXCEPT !.signature = <<>>, !.cert = <<>>],
              ret |-> Err("SerializeSignError")]
        ELSE [self |-> [self EXCEPT !.signature = <<signature.val[1]>>,
                                    !.cert = <<get_certificate(keypair)>>],
              ret |-> Ok(<<>>)]

\* fill_kvhead signing the encoded tag in front of the body.
fill_kvhead_SignsTag(self, keypair, rng) ==
    LET body_ == MsgType_to_bytes(self.msg_type) \o TestPoint_to_bytes(self.t_obj)
        signature == KeyPairSm2_sign(keypair, body_, rng)
    IN  IF ~signature.ok
        THEN [self |-> self, ret |-> Err("SerializeSignError")]
        ELSE [self |-> [self EXCEPT !.signature = <<signature.val[1]>>,
                                    !.cert = <<get_certificate(keypair)>>],
              ret |-> Ok(<<>>)]

\* Returns the envelope after the call and the call's result.
fill_kvhead(self, keypair, rng) ==
    LET body_ == TestPoint_to_bytes(self.t_obj)
        signature == KeyPairSm2_sign(keypair, body_, rng)
    IN  IF ~signature.ok
        THEN [self |-> self, ret |-> Err("SerializeSignError")]
        ELSE [self |-> [self EXCEPT !.signature = <<signature.val[1]>>,
                                    !.cert = <<get_certificate(keypair)>>],
              ret |-> Ok(<<>>)]

\* verfiy_kvhead that only looks whether the header is filled.
verfiy_kvhead_PresenceOnly(self) ==
    IF self.cert = <<>> \/ self.signature = <<>> THEN Err("KVHeadVerifyError")
    ELSE Ok(<<>>)

\* verfiy_kvhead reporting an unfilled header as a decode error.
verfiy_kvhead_AbsentAsDecode(self) ==
    IF self.cert = <<>> \/ self.signature = <<>> THEN Err("DeSerializeError")
    ELSE IF ~CertificateSm2_verify(self.cert[1], TestPoint_to_bytes(self.t_obj),
                                   self.signature[1])
    THEN Err("KVHeadVerifyError")
    ELSE Ok(<<>>)

\* verfiy_kvhead checking the signature over the tag and the body.
verfiy_kvhead_ChecksTag(self) ==
    IF self.cert = <<>> \/ self.signature = <<>> THEN Err("KVHeadVerifyError")
    ELSE IF ~CertificateSm2_verify(self.cert[1],
                MsgType_to_bytes(self.msg_type) \o TestPoint_to_bytes(self.t_obj),
                self.signature[1])
    THEN Err("KVHeadVerifyError")
    ELSE Ok(<<>>)

verfiy_kvhead(self) ==
    IF self.cert = <<>> \/ self.signature = <<>> THEN Err("KVHeadVerifyError")
    ELSE IF ~CertificateSm2_verify(self.cert[1], TestPoint_to_bytes(self.t_obj),
                                   self.signature[1])
    THEN Err("KVHeadVerifyError")
    ELSE Ok(<<>>)

get_key(self, key) == TestPoint_get_key(self.t_obj, key)

set_key(self, key, value) ==
    LET r == TestPoint_set_key(self.t_obj, key, value) IN
    [self |-> [self EXCEPT !.t_obj = r.self], ret |-> r.ret]

-----------------------------------------------------------------------------
(* serde: the derived and hand-written Serialize / Deserialize *)
(* A serialized struct is the sequence of its entries, key and value, in the *)
(* order the text gives them, read as serde_json::from_str reads it. A value *)
(* is null, a string (a variant name or hex characters), a number, or an *)
(* object: the sequence of its members, each a key with null or a number. *)

JsonUnit == [kind |-> "null", n |-> 0]

JsonInt(n) == [kind |-> "number", n |-> n]

Member(key, val) == [key |-> key, val |-> val]

JsonNull == [kind |-> "null", tag |-> "", hex |-> <<>>, members |-> <<>>]

JsonTag(name) == [kind |-> "string", tag |-> name, hex |-> <<>>, members |-> <<>>]

JsonHex(str) == [kind |-> "string", tag |-> "", hex |-> str, members |-> <<>>]

JsonNumber == [kind |-> "number", tag |-> "", hex |-> <<>>, members |-> <<>>]

JsonObject(members) ==
    [kind |-> "object", tag |-> "", hex |-> <<>>, members |-> members]

Entry(key, val) == [key |-> key, val |-> val]

CertificateSm2_serialize(self) == encode_hex_upper(CertificateSm2_to_bytes(self))

CertificateSm2_deserialize(v, accept) ==
    IF v.kind # "string" THEN Err("invalid hex string")
    ELSE LET d_byte == from_hex(v.hex) IN
         IF ~d_byte.ok THEN Err("invalid hex string")
         ELSE LET c == CertificateSm2_from_bytes(d_byte.val[1], accept) IN
              IF ~c.ok THEN Err("invalid hex string") ELSE c

SignatureSm2_serialize(self) == encode_hex_upper(SignatureSm2_to_bytes(self))

SignatureSm2_deserialize(v, accept) ==
    IF v.kind # "string" THEN Err("invalid hex string")
    ELSE LET d_byte == from_hex(v.hex) IN
         IF ~d_byte.ok THEN Err("invalid hex string")
         ELSE LET g == SignatureSm2_from_bytes(d_byte.val[1], accept) IN
              IF ~g.ok THEN Err("invalid hex string") ELSE g

\* #[derive(Deserialize)] on MsgType, an enum of unit variants: a string is
\* the variant name; an object is read as variant name and content, the name
\* being its first key and looked up first, the content of a unit variant
\* being null, and nothing may follow; any other value is no enum.
MsgType_deserialize(v) ==
    CASE v.kind = "string" ->
            IF v.tag \in MsgType THEN Ok(v.tag) ELSE Err("unknown variant")
      [] v.kind = "object" ->
            IF Len(v.members) = 0 THEN Err("expected value")
            ELSE IF v.members[1].key \notin MsgType THEN Err("unknown variant")
            ELSE IF v.members[1].val.kind # "null" THEN Err("invalid type")
            ELSE IF Len(v.members) > 1 THEN Err("expected value")
            ELSE Ok(v.members[1].key)
      [] OTHER -> Err("expected value")

\* The derived visitor of TestPoint: members in the order of the text, a key
\* that is no field skipped, a field seen twice or not a number an error;
\* after the last member a field not seen is an error, x before y.
RECURSIVE TestPoint_visit_map(_, _, _)
TestPoint_visit_map(m, i, seen) ==
    IF i > Len(m)
    THEN IF seen.x = <<>> THEN Err("missing field x")
         ELSE IF seen.y = <<>> THEN Err("missing field y")
         ELSE Ok([x |-> seen.x[1], y |-> seen.y[1]])
    ELSE IF m[i].key \notin {"x", "y"} THEN TestPoint_visit_map(m, i + 1, seen)
    ELSE IF seen[m[i].key] # <<>> THEN Err("duplicate field")
    ELSE IF m[i].val.kind # "number" THEN Err("invalid type")
    ELSE TestPoint_visit_map(m, i + 1, [seen EXCEPT ![m[i].key] = <<m[i].val.n>>])

\* #[derive(Deserialize)] on TestPoint.
TestPoint_deserialize(v) ==
    IF v.kind # "object" THEN Err("invalid type")
    ELSE TestPoint_visit_map(v.members, 1, [x |-> <<>>, y |-> <<>>])

\* #[derive(Serialize)] on KVObject: the fields in declaration order, each by
\* its own Serialize, an Option as null or the value.
KVObject_serialize(self) ==
    << Entry("msg_type", JsonTag(self.msg_type)),
       Entry("cert", IF self.cert = <<>> THEN JsonNull
                     ELSE JsonHex(CertificateSm2_serialize(self.cert[1]))),
       Entry("signature", IF self.signature = <<>> THEN JsonNull
                          ELSE JsonHex(SignatureSm2_serialize(self.signature[1]))),
       Entry("t_obj", JsonObject(<< Member("x", JsonInt(self.t_obj.x)),
                                    Member("y", JsonInt(self.t_obj.y)) >>)) >>

KVObject_FIELDS == {"msg_type", "cert", "signature", "t_obj"}

\* One entry of KVObject: a field by its own Deserialize, a null Option as
\* None; the value of a key that is no field is read and dropped.
KVObject_field(key, v, acceptCert, acceptSig) ==
    CASE key = "msg_type" -> MsgType_deserialize(v)
      [] key = "cert" ->
            IF v.kind = "null" THEN Ok(<<>>)
            ELSE LET c == CertificateSm2_deserialize(v, acceptCert) IN
                 IF c.ok THEN Ok(c.val) ELSE c
      [] key = "signature" ->
            IF v.kind = "null" THEN Ok(<<>>)
            ELSE LET g == SignatureSm2_deserialize(v, acceptSig) IN
                 IF g.ok THEN Ok(g.val) ELSE g
      [] key = "t_obj" -> TestPoint_deserialize(v)
      [] OTHER -> Ok(<<>>)

\* The derived visitor: the entries are read in the order of the text; an
\* entry whose key is no field is skipped (the struct does not deny unknown
\* fields); a field seen twice or a field that fails to decode ends the
\* reading there; after the last entry a missing Option field is None and
\* any other missing field is an error.
RECURSIVE KVObject_visit_map(_, _, _, _, _)
KVObject_visit_map(d, i, seen, acceptCert, acceptSig) ==
    IF i > Len(d)
    THEN IF seen.msg_type = <<>> THEN Err("missing field msg_type")
         ELSE IF seen.t_obj = <<>> THEN Err("missing field t_obj")
         ELSE Ok([msg_type |-> seen.msg_type[1],
                  cert |-> IF seen.cert = <<>> THEN <<>> ELSE seen.cert[1],
                  signature |-> IF seen.signature = <<>> THEN <<>>
                                ELSE seen.signature[1],
                  t_obj |-> seen.t_obj[1]])
    ELSE IF d[i].key \notin KVObject_FIELDS
    THEN KVObject_visit_map(d, i + 1, seen, acceptCert, acceptSig)
    ELSE IF seen[d[i].key] # <<>> THEN Err("duplicate field")
    ELSE LET r == KVObject_field(d[i].key, d[i].val, acceptCert, acceptSig) IN
         IF ~r.ok THEN r
         ELSE KVObject_visit_map(d, i + 1, [seen EXCEPT ![d[i].key] = r.val],
                                 acceptCert, acceptSig)

\* #[derive(Deserialize)] on KVObject; the two Options are filled
\* independently.
KVObject_deserialize(d, acceptCert, acceptSig) ==
    KVObject_visit_map(d, 1,
                       [msg_type |-> <<>>, cert |-> <<>>, signature |-> <<>>,
                        t_obj |-> <<>>],
                       acceptCert, acceptSig)

-----------------------------------------------------------------------------
(* Inputs the operations are driven with *)

NewTags == {"Transaction", "IssueQuotaRequest"}
NewXs == {3, -2}
NewYs == {5}
KeyNames == {"x", "y", "z"}      \* "z" is no field of TestPoint
ValidKeys == {"x", "y"}
SetValues == {I32ToLe(7), I32ToLe(-2), <<7, 0, 0>>}

\* The value of res after operation op returned r, called with arguments arg.
Result(op, arg, r) ==
    [op |-> op, arg |-> arg, ok |-> r.ok, err |-> r.err,
     val |-> IF op = "get_key" THEN r.val ELSE <<>>]

\* The bytes each field of a body holds.
FieldBytes(t_obj) ==
    [k \in KeyNames |->
        CASE k = "x" -> <<I32ToLe(t_obj.x)>>
          [] k = "y" -> <<I32ToLe(t_obj.y)>>
          [] OTHER -> <<>>]

\* History of a successful fill_kvhead by key k that left the envelope `self`.
SignRecord(k, self) ==
    <<[key |-> k, sig |-> self.signature, body |-> TestPoint_to_bytes(self.t_obj)]>>

NoWire == [damage |-> "none", at |-> 0, stage |-> "idle", len |-> 0]
InFlight(bytes) == [damage |-> "none", at |-> 0, stage |-> "flight", len |-> Len(bytes)]
NoKeyPairCall == [called |-> FALSE, ret |-> Err("")]

-----------------------------------------------------------------------------
(* The envelope's life: construct, sign, patch, read, serialize, decode, verify *)

Init ==
    \E tag \in NewTags, x \in NewXs, y \in NewYs :
        /\ obj = New(tag, [x |-> x, y |-> y])
        /\ buf = <<>>
        /\ res = Result("new", <<>>, Ok(<<>>))
        /\ lastSign = <<>>
        /\ lastSet = FieldBytes([x |-> x, y |-> y])
        /\ wire = NoWire
        /\ kp_in = <<>>
        /\ kp_out = NoKeyPairCall

NewObject ==
    \E tag \in NewTags, x \in NewXs, y \in NewYs :
        /\ buf = <<>>
        /\ obj' = New(tag, [x |-> x, y |-> y])
        /\ res' = Result("new", <<>>, Ok(<<>>))
        /\ lastSign' = <<>>
        /\ lastSet' = FieldBytes([x |-> x, y |-> y])
        /\ UNCHANGED <<buf, wire, kp_in, kp_out>>

FillKvhead ==
    \E k \in Keys, rng \in Rngs :
        LET r == fill_kvhead(obj, KeyPairOf(k), rng) IN
        /\ buf = <<>>
        /\ obj' = r.self
        /\ res' = Result("fill_kvhead", <<>>, r.ret)
        /\ lastSign' = IF r.ret.ok THEN SignRecord(k, r.self) ELSE lastSign
        /\ UNCHANGED <<buf, lastSet, wire, kp_in, kp_out>>

SetKey ==
    \E key \in KeyNames, value \in SetValues :
        LET r == set_key(obj, key, value) IN
        /\ buf = <<>>
        /\ obj' = r.self
        /\ res' = Result("set_key", <<key, value>>, r.ret)
        /\ lastSet' = IF r.ret.ok THEN [lastSet EXCEPT ![key] = <<value>>] ELSE lastSet
        /\ UNCHANGED <<buf, lastSign, wire, kp_in, kp_out>>

GetKey ==
    \E key \in KeyNames :
        /\ res' = Result("get_key", <<key>>, get_key(obj, key))
        /\ UNCHANGED <<obj, buf, lastSign, lastSet, wire, kp_in, kp_out>>

ToBytes ==
    /\ buf = <<>>
    /\ buf' = <<KVObject_to_bytes(obj)>>
    /\ res' = Result("to_bytes", <<>>, Ok(<<>>))
    /\ wire' = InFlight(KVObject_to_bytes(obj))
    /\ UNCHANGED <<obj, lastSign, lastSet, kp_in, kp_out>>

\* from_bytes on the buffer in flight; the caller keeps the decoded envelope.
FromBytes ==
    \E acceptCert \in BOOLEAN, acceptSig \in BOOLEAN :
        /\ buf # <<>>
        /\ LET r == KVObject_from_bytes(buf[1], acceptCert, acceptSig) IN
           /\ obj' = IF r.ok THEN r.val[1] ELSE obj
           /\ res' = Result("from_bytes", <<>>, r)
           /\ lastSet' = IF r.ok THEN FieldBytes(r.val[1].t_obj) ELSE lastSet
           /\ wire' = [wire EXCEPT !.stage = IF r.ok THEN "accepted" ELSE "rejected"]
        /\ buf' = <<>>
        /\ UNCHANGED <<lastSign, kp_in, kp_out>>

VerfiyKvhead ==
    /\ res' = Result("verfiy_kvhead", <<>>, verfiy_kvhead(obj))
    /\ UNCHANGED <<obj, buf, lastSign, lastSet, wire, kp_in, kp_out>>

\* Envelopes whose serialized text is handed to deserialize: one constructed
\* envelope, unsigned and signed by each key with each draw.
TextEnvelopes ==
    {fill_kvhead(New("Transaction", [x |-> 3, y |-> 5]), KeyPairOf(k), rng).self :
        k \in Keys, rng \in Rngs}

\* The text as serialize prints it, and that text changed: an Option made
\* null or left out, entries in another order, the certificate of another
\* key, a tag name the enum does not have, hex text one character short, a
\* signature with one byte changed, a number for the certificate, a body
\* without its y, a body with its members in another order and one that is no
\* field, no msg_type, the cert entry twice, an entry that is no field, the
\* tag as an object of one or two members, a number for the tag, and two
\* malformed fields in either order of the text.
JsonValues ==
    LET texts == {KVObject_serialize(o) : o \in TextEnvelopes}
        signed == {t \in texts : t[2].val.kind = "string" /\ t[3].val.kind = "string"}
        badTag == Entry("msg_type", JsonTag("PREISSUE"))
        badCert == Entry("cert", JsonHex(<<122, 122>>))
    IN  texts
          \cup {[t EXCEPT ![2].val = JsonNull] : t \in signed}
          \cup {[t EXCEPT ![3].val = JsonNull] : t \in signed}
          \cup {<<t[1], t[3], t[4]>> : t \in signed}
          \cup {<<t[4], t[2], t[1]>> : t \in signed}
          \cup {[t EXCEPT ![2].val = JsonHex(CertificateSm2_serialize(PointOf(k)))] :
                    t \in signed, k \in Keys}
          \cup {[t EXCEPT ![1] = badTag] : t \in signed}
          \cup {[t EXCEPT ![2].val = JsonHex(SubSeq(t[2].val.hex, 1, 2 * CERT_LEN - 1))] :
                    t \in signed}
          \cup {[t EXCEPT ![3].val = JsonHex([t[3].val.hex EXCEPT ![6] = 57])] :
                    t \in signed}
          \cup {[t EXCEPT ![2].val = JsonNumber] : t \in signed}
          \cup {[t EXCEPT ![4].val = JsonObject(<<Member("x", JsonInt(3))>>)] :
                    t \in signed}
          \cup {[t EXCEPT ![4].val = JsonObject(<< Member("y", JsonInt(5)),
                                                   Member("z", JsonUnit),
                                                   Member("x", JsonInt(3)) >>)] :
                    t \in signed}
          \cup {<<t[2], t[3], t[4]>> : t \in signed}
          \cup {<<t[1], t[2], t[2], t[3], t[4]>> : t \in signed}
          \cup {<<t[1], Entry("extra", JsonNumber), t[2], t[3], t[4]>> : t \in signed}
          \cup {[t EXCEPT ![1].val = JsonObject(<<Member("Transaction", JsonUnit)>>)] :
                    t \in signed}
          \cup {[t EXCEPT ![1].val = JsonObject(<<Member("x", JsonInt(3))>>)] :
                    t \in signed}
          \cup {[t EXCEPT ![1].val = JsonObject(<< Member("Transaction", JsonUnit),
                                                   Member("x", JsonInt(3)) >>)] :
                    t \in signed}
          \cup {[t EXCEPT ![1].val = JsonNumber] : t \in signed}
          \cup {<<badTag, badCert, t[3], t[4]>> : t \in signed}
          \cup {<<badCert, badTag, t[3], t[4]>> : t \in signed}

\* What deserialize returns on those texts, for either answer of the provider
\* on an encoding no key of the model produces.
JsonDecodeOutcomes ==
    {KVObject_deserialize(d, acceptCert, acceptSig) :
        d \in JsonValues, acceptCert \in BOOLEAN, acceptSig \in BOOLEAN}

\* KVObject::deserialize on one of the texts; the caller keeps the envelope.
DeserializeObject ==
    \E r \in JsonDecodeOutcomes :
        /\ buf = <<>>
        /\ obj' = IF r.ok THEN r.val[1] ELSE obj
        /\ res' = Result("deserialize", <<>>, r)
        /\ lastSign' = IF r.ok THEN <<>> ELSE lastSign
        /\ lastSet' = IF r.ok THEN FieldBytes(r.val[1].t_obj) ELSE lastSet
        /\ UNCHANGED <<buf, wire, kp_in, kp_out>>

Next ==
    \/ NewObject
    \/ FillKvhead
    \/ SetKey
    \/ GetKey
    \/ ToBytes
    \/ FromBytes
    \/ VerfiyKvhead
    \/ DeserializeObject

Spec == Init /\ [][Next]_vars

\* The envelope driven through its own methods only: no text decoding.
NextEnvelope ==
    \/ NewObject
    \/ FillKvhead
    \/ SetKey
    \/ GetKey
    \/ ToBytes
    \/ FromBytes
    \/ VerfiyKvhead

SpecEnvelope == Init /\ [][NextEnvelope]_vars

-----------------------------------------------------------------------------
(* A serialized envelope on the wire: one byte changed, or the length changed *)

\* The state after new, fill_kvhead (succeeding or failing) and to_bytes.
WireInit ==
    \E tag \in NewTags, x \in NewXs, y \in NewYs, k \in Keys, rng \in Rngs :
        LET r == fill_kvhead(New(tag, [x |-> x, y |-> y]), KeyPairOf(k), rng) IN
        /\ obj = r.self
        /\ buf = <<KVObject_to_bytes(r.self)>>
        /\ res = Result("to_bytes", <<>>, Ok(<<>>))
        /\ lastSign = IF r.ret.ok THEN SignRecord(k, r.self) ELSE <<>>
        /\ lastSet = FieldBytes([x |-> x, y |-> y])
        /\ wire = InFlight(KVObject_to_bytes(r.self))
        /\ kp_in = <<>>
        /\ kp_out = NoKeyPairCall

Tamper ==
    \E off \in 0..(HEAD_TOTAL_LEN + 8 - 1), b \in 0..MaxTamperByte :
        /\ buf # <<>>
        /\ wire.damage = "none"
        /\ off < Len(buf[1])
        /\ b # buf[1][off + 1]
        /\ buf' = <<[buf[1] EXCEPT ![off + 1] = b]>>
        /\ wire' = [wire EXCEPT !.damage = "tamper", !.at = off]
        /\ UNCHANGED <<obj, res, lastSign, lastSet, kp_in, kp_out>>

Resize ==
    \E n \in 0..(HEAD_TOTAL_LEN + 8 + MaxExtra) :
        /\ buf # <<>>
        /\ wire.damage = "none"
        /\ n # Len(buf[1])
        /\ buf' = <<Resized(buf[1], n)>>
        /\ wire' = [wire EXCEPT !.damage = "resize", !.len = n]
        /\ UNCHANGED <<obj, res, lastSign, lastSet, kp_in, kp_out>>

NextWire ==
    \/ Tamper
    \/ Resize
    \/ FromBytes
    \/ VerfiyKvhead

SpecWire == WireInit /\ [][NextWire]_vars

-----------------------------------------------------------------------------
(* Text deserialization of a key pair *)

KeyPairBytes(k, n) == Resized(KeyPairSm2_to_bytes(KeyPairOf(k)), n)

\* Hex text of n bytes; malformed hex; a public key with a bad prefix; a
\* secret scalar no key of the model has.
KeyPairTexts ==
    {encode_hex_upper(KeyPairBytes(k, n)) : k \in Keys, n \in 0..(KEYPAIR_LEN + MaxExtra)}
      \cup {SubSeq(KeyPairSm2_serialize(KeyPairOf(k)), 1, 2 * KEYPAIR_LEN - 1) : k \in Keys}
      \cup {[KeyPairSm2_serialize(KeyPairOf(k)) EXCEPT ![1] = 71] : k \in Keys}
      \cup {encode_hex_upper([KeyPairBytes(k, n) EXCEPT ![65] = 9]) :
                k \in Keys, n \in {KEYPAIR_LEN - 1, KEYPAIR_LEN}}
      \cup {encode_hex_upper([KeyPairBytes(k, n) EXCEPT ![34] = 9]) :
                k \in Keys, n \in {KEYPAIR_LEN - 1, KEYPAIR_LEN}}

KeyPairInit ==
    /\ kp_in \in KeyPairTexts
    /\ kp_out = NoKeyPairCall
    /\ obj = New("Transaction", [x |-> 3, y |-> 5])
    /\ buf = <<>>
    /\ res = Result("new", <<>>, Ok(<<>>))
    /\ lastSign = <<>>
    /\ lastSet = FieldBytes([x |-> 3, y |-> 5])
    /\ wire = NoWire

DeserializeKeyPair ==
    \E acceptScalar \in BOOLEAN, acceptPoint \in BOOLEAN :
        /\ ~kp_out.called
        /\ kp_out' = [called |-> TRUE,
                      ret |-> KeyPairSm2_deserialize(kp_in, acceptScalar, acceptPoint)]
        /\ UNCHANGED <<obj, buf, res, lastSign, lastSet, wire, kp_in>>

NextKeyPair == DeserializeKeyPair

SpecKeyPair == KeyPairInit /\ [][NextKeyPair]_vars

-----------------------------------------------------------------------------
(* Properties *)

\* C1 (Spec). Round trip: decoding the serialization of an envelope that
\* was constructed and successfully signed under key K succeeds, and the
\* decoded envelope has the same msg_type and body, the certificate of K and
\* the signature the signing produced.
C1_RoundTripStep ==
    (buf # <<>> /\ buf' = <<>> /\ lastSign # <<>>)
        => /\ res'.op = "from_bytes" /\ res'.ok
           /\ obj'.msg_type = obj.msg_type
           /\ obj'.t_obj = obj.t_obj
           /\ obj'.cert = <<get_certificate(KeyPairOf(lastSign[1].key))>>
           /\ obj'.signature = lastSign[1].sig

\* The same for every tag of the table, on every signed envelope reached.
C1_EveryTag ==
    (lastSign # <<>> /\ obj.cert # <<>> /\ obj.signature # <<>>)
        => \A m \in MsgType :
               LET o == [obj EXCEPT !.msg_type = m] IN
               KVObject_from_bytes(KVObject_to_bytes(o), FALSE, FALSE) = Ok(o)

C1_RoundTrip == []C1_EveryTag /\ [][C1_RoundTripStep]_vars

C1_Witness ==
    /\ res.op = "from_bytes" /\ res.ok
    /\ wire.stage = "accepted"
    /\ lastSign # <<>>
    /\ obj.signature = lastSign[1].sig
    /\ obj.cert = <<PointOf(lastSign[1].key)>>
    /\ obj.msg_type = "Transaction"
    /\ obj.t_obj = [x |-> 7, y |-> 5]

\* C2 (SpecWire). Tamper detection: once one byte in the signature region
\* or the body region of the serialization of a signed envelope was changed,
\* an envelope decoded from it never verifies: from_bytes fails, or
\* verfiy_kvhead on the decoded envelope returns KVHeadVerifyError.
C2_TamperDetected ==
    (/\ lastSign # <<>>
     /\ wire.damage = "tamper"
     /\ wire.at >= SIGTURE_OFFSET
     /\ wire.stage = "accepted")
        => /\ verfiy_kvhead(obj) = Err("KVHeadVerifyError")
           /\ res.op = "verfiy_kvhead" => (~res.ok /\ res.err = "KVHeadVerifyError")

C2_Witness ==
    /\ lastSign # <<>>
    /\ wire.damage = "tamper"
    /\ wire.at >= SIGTURE_OFFSET /\ wire.at < SIGTURE_END
    /\ wire.stage = "accepted"
    /\ res.op = "verfiy_kvhead"
    /\ res.err = "KVHeadVerifyError"

\* C3 (SpecWire). verfiy_kvhead fails whenever the certificate or the
\* signature is absent, be it both or one of them; every failure of it,
\* whatever the cause, is the one error KVHeadVerifyError; and it leaves the
\* envelope as it was.
C3_VerifyState ==
    /\ (obj.cert = <<>> \/ obj.signature = <<>>)
           => verfiy_kvhead(obj) = Err("KVHeadVerifyError")
    /\ \A o \in {[obj EXCEPT !.cert = <<>>], [obj EXCEPT !.signature = <<>>]} :
           verfiy_kvhead(o) = Err("KVHeadVerifyError")
    /\ verfiy_kvhead(obj) \in {Ok(<<>>), Err("KVHeadVerifyError")}
    /\ res.op = "verfiy_kvhead"
           => /\ res.ok \/ res.err = "KVHeadVerifyError"
              /\ (obj.cert = <<>> \/ obj.signature = <<>>) => ~res.ok

C3_VerifyStep == (res'.op = "verfiy_kvhead") => (obj' = obj)

C3_VerifyError == []C3_VerifyState /\ [][C3_VerifyStep]_vars

\* The wrong-certificate case: the certificate byte that tells the keys apart
\* was changed into that of another key.
C3_Witness ==
    /\ lastSign # <<>>
    /\ wire.damage = "tamper"
    /\ wire.at >= CERT_OFFSET /\ wire.at < CERT_END
    /\ wire.stage = "accepted"
    /\ \E k \in Keys : k # lastSign[1].key /\ obj.cert = <<PointOf(k)>>
    /\ obj.signature = lastSign[1].sig
    /\ res.op = "verfiy_kvhead"
    /\ res.err = "KVHeadVerifyError"

\* C4 (SpecEnvelope). In every state reached by new, fill_kvhead, set_key,
\* get_key, to_bytes, verfiy_kvhead and from_bytes the cert and signature
\* fields of the envelope are both absent or both present.
C4_BothOrNeither == (obj.cert = <<>>) <=> (obj.signature = <<>>)

C4_Witness ==
    /\ res.op = "fill_kvhead" /\ res.ok
    /\ obj.cert # <<>>
    /\ obj.signature # <<>>

\* C5 as claimed (Spec). After a fill_kvhead whose signing failed, the call
\* has returned SerializeSignError and both cert and signature are absent.
C5_FailedFillLeavesUnset ==
    (res.op = "fill_kvhead" /\ ~res.ok)
        => /\ res.err = "SerializeSignError"
           /\ obj.cert = <<>>
           /\ obj.signature = <<>>

\* C5 as amended (Spec). A fill_kvhead whose signing fails returns
\* SerializeSignError and leaves the envelope, cert and signature included,
\* exactly as it was before the call.
C5_FailedFillStep ==
    (res'.op = "fill_kvhead" /\ ~res'.ok)
        => /\ res'.err = "SerializeSignError"
           /\ obj' = obj

C5_FailedFillKeepsHeader == [][C5_FailedFillStep]_vars

C5_Witness ==
    /\ res.op = "fill_kvhead" /\ ~res.ok
    /\ obj.cert # <<>>
    /\ obj.signature # <<>>

\* C6 (SpecWire). from_bytes returns DeSerializeError for every buffer of
\* at most 98 bytes; it returns Ok only for buffers of at least 99 bytes.
C6_HeaderTooShort ==
    /\ (res.op = "from_bytes" /\ wire.len <= HEAD_TOTAL_LEN)
           => (~res.ok /\ res.err = "DeSerializeError")
    /\ wire.stage = "accepted" => wire.len >= HEAD_TOTAL_LEN + 1

C6_Witness ==
    /\ res.op = "from_bytes"
    /\ wire.damage = "resize"
    /\ wire.len = HEAD_TOTAL_LEN
    /\ lastSign # <<>>
    /\ res.err = "DeSerializeError"

\* C7 (Spec). get_key of a field returns the bytes of the most recent
\* successful set_key of that field, or those the body was constructed or
\* decoded with; a successful set_key leaves every other field as it was and
\* a failed one leaves the whole body as it was.
C7_GetState ==
    /\ \A k \in ValidKeys : <<get_key(obj, k).ok, get_key(obj, k).val>> = <<TRUE, lastSet[k]>>
    /\ (res.op = "get_key" /\ res.arg[1] \in ValidKeys)
           => (res.ok /\ res.val = lastSet[res.arg[1]])

C7_SetStep ==
    (res'.op = "set_key")
        => /\ res'.ok
               => \A k \in ValidKeys \ {res'.arg[1]} : get_key(obj', k) = get_key(obj, k)
           /\ ~res'.ok => obj'.t_obj = obj.t_obj

C7_AttributeRoundTrip == []C7_GetState /\ [][C7_SetStep]_vars

C7_Witness ==
    /\ res.op = "get_key"
    /\ res.arg = <<"x">>
    /\ res.val = <<I32ToLe(7)>>
    /\ lastSet["y"] = <<I32ToLe(-2)>>
    /\ obj.t_obj = [x |-> 7, y |-> -2]

\* C8 as claimed (Spec). get_key and set_key with a key that is no field of
\* the body return KeyIndexError, whatever the value bytes are.
C8_UnknownKeyAnyValue ==
    (res.op \in {"get_key", "set_key"} /\ res.arg[1] \notin ValidKeys)
        => (~res.ok /\ res.err = "KeyIndexError")

\* C8 as amended (Spec). get_key with an unknown key returns KeyIndexError;
\* set_key with an unknown key returns KeyIndexError when the value is 4
\* bytes long and ValueValid when it is not.
C8_UnknownKey ==
    /\ (res.op = "get_key" /\ res.arg[1] \notin ValidKeys)
           => (~res.ok /\ res.err = "KeyIndexError")
    /\ (res.op = "set_key" /\ res.arg[1] \notin ValidKeys)
           => /\ ~res.ok
              /\ res.err = IF Len(res.arg[2]) = 4 THEN "KeyIndexError" ELSE "ValueValid"

C8_Witness ==
    /\ res.op = "set_key"
    /\ res.arg[1] = "z"
    /\ Len(res.arg[2]) = 4
    /\ res.err = "KeyIndexError"

\* C9 (SpecKeyPair). Deserializing valid hex text whose bytes are not 129
\* long returns a deserialization error: it neither aborts nor returns a
\* key pair.
C9_WrongLengthIsError ==
    (/\ kp_out.called
     /\ from_hex(kp_in).ok
     /\ Len(kp_in) # 2 * KEYPAIR_LEN)
        => kp_out.ret = Err("invalid hex string")

\* C10 (SpecEnvelope). verfiy_kvhead returns Ok exactly when a fill_kvhead has
\* succeeded and the encoded body is the one the last successful fill_kvhead
\* signed; set_key leaves cert and signature untouched; the stored signature
\* verifies over the bytes it was made for and over no other body.
ModelBodies == [x : NewXs \cup {7}, y : NewYs \cup {7, -2}]

C10_VerifyState ==
    /\ verfiy_kvhead(obj).ok
           <=> (lastSign # <<>> /\ TestPoint_to_bytes(obj.t_obj) = lastSign[1].body)
    /\ res.op = "verfiy_kvhead"
           => (res.ok <=> (lastSign # <<>>
                             /\ TestPoint_to_bytes(obj.t_obj) = lastSign[1].body))
    /\ (lastSign # <<>> /\ obj.cert # <<>> /\ obj.signature # <<>>)
           => \A t \in ModelBodies :
                  CertificateSm2_verify(obj.cert[1], TestPoint_to_bytes(t),
                                        obj.signature[1])
                      <=> (TestPoint_to_bytes(t) = lastSign[1].body)

C10_SetStep ==
    (res'.op = "set_key")
        => (obj'.cert = obj.cert /\ obj'.signature = obj.signature)

C10_SignatureBindsBody == []C10_VerifyState /\ [][C10_SetStep]_vars

\* Re-signed after a patch: the body differs from the constructed one.
C10_Witness ==
    /\ res.op = "verfiy_kvhead" /\ res.ok
    /\ obj.t_obj = [x |-> 7, y |-> 5]
    /\ lastSign # <<>>
    /\ lastSign[1].body = TestPoint_to_bytes(obj.t_obj)
    /\ ~CertificateSm2_verify(obj.cert[1], TestPoint_to_bytes([x |-> 3, y |-> 5]),
                              obj.signature[1])

\* C11 (SpecWire). The signed bytes are the encoded body and never the
\* header, so verification does not depend on msg_type: when the tag byte of
\* a signed, serialized envelope is replaced by another valid tag byte,
\* from_bytes decodes the buffer, the decoded envelope carries the changed
\* msg_type and the sender's body, certificate and signature, and
\* verfiy_kvhead accepts it.
C11_TagFree ==
    /\ \A m \in MsgType :
           verfiy_kvhead([obj EXCEPT !.msg_type = m]) = verfiy_kvhead(obj)
    /\ (/\ lastSign # <<>>
        /\ wire.damage = "tamper"
        /\ wire.at = MSGTYPE_OFFSET
        /\ wire.stage = "accepted")
           => /\ verfiy_kvhead(obj) = Ok(<<>>)
              /\ res.op = "verfiy_kvhead" => res.ok

C11_TagStep ==
    (/\ buf # <<>> /\ buf' = <<>>
     /\ lastSign # <<>>
     /\ wire.damage = "tamper"
     /\ wire.at = MSGTYPE_OFFSET
     /\ buf[1][1] \in 1..6)
        => /\ res'.op = "from_bytes" /\ res'.ok
           /\ MsgType_to_bytes(obj'.msg_type) = <<buf[1][1]>>
           /\ obj'.msg_type # obj.msg_type
           /\ obj' = [obj EXCEPT !.msg_type = obj'.msg_type]
           /\ verfiy_kvhead(obj') = Ok(<<>>)

C11_TagNotSigned == []C11_TagFree /\ [][C11_TagStep]_vars

C11_Witness ==
    /\ lastSign # <<>>
    /\ wire.damage = "tamper"
    /\ wire.at = MSGTYPE_OFFSET
    /\ wire.stage = "accepted"
    /\ obj.msg_type = "DigitalCurrency"
    /\ obj.signature = lastSign[1].sig
    /\ res.op = "verfiy_kvhead" /\ res.ok

====
